---- MODULE Spec2Model ----
(***************************************************************************)
(* Model of the quiz application: the question generator adapter           *)
(* (services/geminiService.ts), the QuizGame session component and the App *)
(* shell with its history store (components/QuizGame.tsx).                 *)
(*                                                                         *)
(* React state is modelled as the component's state variables; the         *)
(* closures a handler sees are the values captured by the last commit      *)
(* (variable view).  A handler run updates the state; the commit (Render)  *)
(* is a step of its own, so a handler can run on the values of the         *)
(* previous commit.                                                        *)
(***************************************************************************)
EXTENDS Integers, Sequences, FiniteSets

\* ------------------------------------------------------------- bounds
MaxLen == 4           \* tokens of a response text
MaxTimer == 2         \* largest configured per-question timer, seconds
MaxHistory == 2       \* records kept in the history
MaxClock == 1         \* largest value of the millisecond clock
MaxPendingCalls == 1  \* generator calls in flight at once
MaxLate == 1          \* handler runs on a state not yet committed, per run

\* ------------------------------------------------------- JS values
\* undefined / null is the empty tuple, a present value v is <<v>>.
Undefined == <<>>

Some(v) == <<v>>

\* obj.f of a JS object: undefined when the property is missing.
Field(obj, f) == IF f \in DOMAIN obj THEN Some(obj[f]) ELSE Undefined

\* ------------------------------------------------- generator adapter
TimeoutArg == "__TIMEOUT__"

TimeoutLabel == "Time Out"

FallbackQuestion ==
  [ question |-> "The AI could not process this PDF/Topic. Please try a shorter text or check your API Key.",
    options  |-> <<"Error", "Try Again", "Check Key", "Refresh">>,
    answer   |-> "Try Again" ]

\* Object literals a response text can hold.  "A" and "S" have the shape the
\* prompt asks for ("S" with a single option); "B1".."B3" and "T" carry the
\* fields of QuizQuestion.
ObjectTokens == {"A", "S", "B1", "B2", "B3", "T"}

ObjectOf(tok) ==
  CASE tok = "A"  -> [ question |-> "qA", options |-> <<"a", "b">>, answer |-> "a" ]
    [] tok = "S"  -> [ question |-> "qS", options |-> <<"s">>, answer |-> "s" ]
    [] tok = "B1" -> [ id |-> 1, question |-> "q1", options |-> <<"a1", "b1">>,
                       correctAnswer |-> "a1", explanation |-> "e1" ]
    [] tok = "B2" -> [ id |-> 2, question |-> "q2", options |-> <<"a2", "b2">>,
                       correctAnswer |-> "b2", explanation |-> "e2" ]
    [] tok = "B3" -> [ id |-> 3, question |-> "q3", options |-> <<"a3", "b3">>,
                       correctAnswer |-> "a3", explanation |-> "e3" ]
    [] tok = "T"  -> [ id |-> 4, question |-> "q4", options |-> <<TimeoutLabel, TimeoutArg>>,
                       correctAnswer |-> TimeoutArg, explanation |-> "e4" ]

\* A response text is a sequence of tokens: "[", "]", ",", "p" (a character
\* of prose) or an object literal.  An object literal holds one bracket
\* pair of its own, the one of its options array.
HasOpen(tok) == tok = "[" \/ tok \in ObjectTokens

HasClose(tok) == tok = "]" \/ tok \in ObjectTokens

\* text.match(/\[[\s\S]*\]/): from the first "[" to the last "]".
Match(text) ==
  LET opens  == { i \in DOMAIN text : HasOpen(text[i]) }
      closes == { i \in DOMAIN text : HasClose(text[i]) }
      first  == CHOOSE i \in opens : \A j \in opens : i <= j
      last   == CHOOSE i \in closes : \A j \in closes : j <= i
  IN  IF opens = {} \/ closes = {} THEN [ found |-> FALSE, first |-> 0, last |-> 0 ]
      ELSE IF last < first \/ (last = first /\ text[first] \notin ObjectTokens)
      THEN [ found |-> FALSE, first |-> 0, last |-> 0 ]
      ELSE [ found |-> TRUE, first |-> first, last |-> last ]

ParseFail == [ ok |-> FALSE, val |-> <<>>, next |-> 0 ]

RECURSIVE ParseValue(_, _)
RECURSIVE ParseItems(_, _, _)

\* JSON grammar over the tokens: value ::= object | "[" [value {"," value}] "]".
\* A nested array is the value [array |-> items].
ParseValue(s, i) ==
  IF i > Len(s) THEN ParseFail
  ELSE IF s[i] \in ObjectTokens THEN [ ok |-> TRUE, val |-> ObjectOf(s[i]), next |-> i + 1 ]
  ELSE IF s[i] = "[" THEN
    IF i + 1 <= Len(s) /\ s[i + 1] = "]"
    THEN [ ok |-> TRUE, val |-> [ array |-> <<>> ], next |-> i + 2 ]
    ELSE LET r == ParseItems(s, i + 1, <<>>)
         IN  IF r.ok THEN [ ok |-> TRUE, val |-> [ array |-> r.val ], next |-> r.next ]
             ELSE ParseFail
  ELSE ParseFail

ParseItems(s, i, acc) ==
  LET v == ParseValue(s, i)
  IN  IF ~v.ok \/ v.next > Len(s) THEN ParseFail
      ELSE IF s[v.next] = "," THEN ParseItems(s, v.next + 1, Append(acc, v.val))
      ELSE IF s[v.next] = "]" THEN [ ok |-> TRUE, val |-> Append(acc, v.val), next |-> v.next + 1 ]
      ELSE ParseFail

\* JSON.parse(jsonMatch[0]) of the span Match found.  A span that starts
\* inside an object literal is that literal's options array when it also
\* ends there, and a cut-off text otherwise.
JSONparse(text, m) ==
  IF text[m.first] \in ObjectTokens
  THEN IF m.last = m.first
       THEN LET opts == ObjectOf(text[m.first]).options
            IN  [ ok |-> TRUE, val |-> [ k \in DOMAIN opts |-> [ string |-> opts[k] ] ] ]
       ELSE [ ok |-> FALSE, val |-> <<>> ]
  ELSE IF text[m.last] \in ObjectTokens THEN [ ok |-> FALSE, val |-> <<>> ]
  ELSE LET r == ParseValue(SubSeq(text, m.first, m.last), 1)
       IN  IF r.ok /\ r.next = m.last - m.first + 2
           THEN [ ok |-> TRUE, val |-> r.val.array ]
           ELSE [ ok |-> FALSE, val |-> <<>> ]

\* generateQuiz for one outcome of the external call: threw (the call or
\* anything before the parse raised) or a response text.
generateQuiz(outcome) ==
  IF outcome.threw THEN <<FallbackQuestion>>
  ELSE LET jsonMatch == Match(outcome.text)
       IN  IF ~jsonMatch.found THEN <<FallbackQuestion>>
           ELSE LET parsed == JSONparse(outcome.text, jsonMatch)
                IN  IF parsed.ok THEN parsed.val ELSE <<FallbackQuestion>>

ServiceError == [ threw |-> TRUE, text |-> <<>> ]

Response(text) == [ threw |-> FALSE, text |-> text ]

\* How the promise generateQuiz returns settles: its try block holds the
\* whole body and its catch returns a literal, so it is never rejected.
Settled(outcome) == [ rejected |-> FALSE, value |-> generateQuiz(outcome), message |-> "" ]

\* ---------------------------------------------------------------- state
NoTimer == 0   \* timerSeconds undefined (falsy, like 0)

VARIABLES
  \* App
  appState, isLoading, questions, userAnswers, timerSeconds, errorToast,
  savedQuizzes, reviewQuiz,
  \* QuizGame
  currentIndex, selectedOption, isAnswered, answers, timeLeft, streak,
  timerRef,      \* TRUE while the interval of timerRef.current is live
  timerEnv,      \* what the live interval's callback closed over
  \* environment
  storage,       \* the localStorage slot QUIZMASTER_HISTORY
  pending,       \* generateQuiz calls awaited by handleStartQuiz
  clock,         \* the last value Date.now() returned
  booted,        \* the mount effects of App have run
  crashed,       \* a render threw: React removed the tree
  view,          \* the values captured by the last commit
  dirty,         \* a handler ran since the last commit
  late,          \* handler runs so far that found the state dirty
  \* generateQuiz taken alone
  genInput, genOutput, genDone

appVars == <<appState, isLoading, questions, userAnswers, timerSeconds, errorToast,
             savedQuizzes, reviewQuiz>>

gameVars == <<currentIndex, selectedOption, isAnswered, answers, timeLeft, streak,
              timerRef, timerEnv>>

envVars == <<storage, pending, clock, booted, crashed>>

genVars == <<genInput, genOutput, genDone>>

reactVars == <<view, dirty, late>>

vars == <<appVars, gameVars, envVars, reactVars, genVars>>

\* What the handlers of the last commit closed over, and what it showed.
Snapshot(as, qs, ts, sq, ci, ia, an) ==
  [ appState |-> as, questions |-> qs, timerSeconds |-> ts, savedQuizzes |-> sq,
    currentIndex |-> ci, isAnswered |-> ia, answers |-> an ]

\* --------------------------------------------------------- history store
AbsentSlot == [ kind |-> "absent", value |-> <<>> ]

CorruptSlot == [ kind |-> "corrupt", value |-> <<>> ]

\* The properties of an Answer that can hold undefined.
MaybeKeys == {"questionId", "questionText", "correctAnswer"}

\* JSON.stringify of an Answer: a property whose value is undefined is left out.
StringifyAnswer(a) ==
  [ k \in { k \in DOMAIN a : k \notin MaybeKeys \/ a[k] # Undefined } |-> a[k] ]

StringifyRecord(r) ==
  IF "answers" \in DOMAIN r
  THEN [ r EXCEPT !.answers = [ i \in DOMAIN r.answers |-> StringifyAnswer(r.answers[i]) ] ]
  ELSE r

\* JSON.stringify(savedQuizzes) as the slot's content: the text is kept as
\* the value JSON.parse reads back from it.
Stringify(list) ==
  [ kind |-> "json", value |-> [ i \in DOMAIN list |-> StringifyRecord(list[i]) ] ]

InitialStorage == { AbsentSlot, CorruptSlot, Stringify(<<>>) }

\* Date.now().toString(): the decimal digits.
RECURSIVE toString(_)
toString(n) == IF n < 10 THEN <<n>> ELSE Append(toString(n \div 10), n % 10)

\* Math.round(num / den) for num, den >= 0: floor(num / den + 1/2).
MathRound(num, den) == (2 * num + den) \div (2 * den)

RECURSIVE CountCorrect(_)
CountCorrect(ans) ==
  IF ans = <<>> THEN 0
  ELSE (IF ans[1].isCorrect THEN 1 ELSE 0) + CountCorrect(Tail(ans))

Score(ans, qs) == MathRound(CountCorrect(ans) * 100, Len(qs))

\* ---------------------------------------------------------------- Init
GameInit ==
  /\ currentIndex = 0
  /\ selectedOption = Undefined
  /\ isAnswered = FALSE
  /\ answers = <<>>
  /\ streak = 0
  /\ timerRef = FALSE
  /\ timerEnv = Undefined

GenIdle ==
  /\ genInput = ServiceError
  /\ genOutput = <<>>
  /\ genDone = FALSE

Init ==
  /\ appState = "DASHBOARD"
  /\ isLoading = FALSE
  /\ questions = <<>>
  /\ userAnswers = <<>>
  /\ timerSeconds = NoTimer
  /\ errorToast = Undefined
  /\ savedQuizzes = <<>>
  /\ reviewQuiz = Undefined
  /\ GameInit
  /\ timeLeft = 0
  /\ storage \in InitialStorage
  /\ pending = 0
  /\ clock = 0
  /\ booted = FALSE
  /\ crashed = FALSE
  /\ view = Snapshot("DASHBOARD", <<>>, NoTimer, <<>>, 0, FALSE, <<>>)
  /\ dirty = FALSE
  /\ late = 0
  /\ GenIdle

\* ------------------------------------------------------------ QuizGame
\* A handler can run: on a committed state, or on a dirty one while the
\* run's allowance lasts.
CanRun == ~dirty \/ late < MaxLate

\* A handler ran: its updates wait for the next commit.
Ran ==
  /\ dirty' = TRUE
  /\ late' = IF dirty THEN late + 1 ELSE late
  /\ UNCHANGED view

CurrentQuestion(qs, i) == IF i + 1 \in DOMAIN qs THEN Some(qs[i + 1]) ELSE Undefined

\* The render body reads currentQuestion.id and maps currentQuestion.options.
RenderThrows(qs, i) ==
  \/ i + 1 \notin DOMAIN qs
  \/ "options" \notin DOMAIN qs[i + 1]

NewAnswer(q, option, userInitiated, isCorrect) ==
  [ questionId     |-> Field(q, "id"),
    questionText   |-> Field(q, "question"),
    selectedOption |-> IF userInitiated THEN option ELSE TimeoutLabel,
    correctAnswer  |-> Field(q, "correctAnswer"),
    isCorrect      |-> isCorrect ]

IsCorrect(option, q) == Some(option) = Field(q, "correctAnswer")

\* handleOptionClick with an incorrect answer leaving the streak as it is.
handleOptionClick_KeepStreak(option, userInitiated, cIsAnswered, q) ==
  IF cIsAnswered
  THEN UNCHANGED <<currentIndex, selectedOption, isAnswered, answers, streak, timerRef, timerEnv>>
  ELSE /\ timerRef' = FALSE
       /\ timerEnv' = Undefined
       /\ selectedOption' = Some(option)
       /\ isAnswered' = TRUE
       /\ streak' = IF IsCorrect(option, q) THEN streak + 1 ELSE streak
       /\ answers' = Append(answers, NewAnswer(q, option, userInitiated, IsCorrect(option, q)))
       /\ UNCHANGED currentIndex

\* handleOptionClick as run by a closure that captured isAnswered = cIsAnswered
\* and currentQuestion = q.  It leaves timeLeft to its caller.
handleOptionClick(option, userInitiated, cIsAnswered, q) ==
  IF cIsAnswered
  THEN UNCHANGED <<currentIndex, selectedOption, isAnswered, answers, streak, timerRef, timerEnv>>
  ELSE /\ timerRef' = FALSE
       /\ timerEnv' = Undefined
       /\ selectedOption' = Some(option)
       /\ isAnswered' = TRUE
       /\ streak' = IF IsCorrect(option, q) THEN streak + 1 ELSE 0
       /\ answers' = Append(answers, NewAnswer(q, option, userInitiated, IsCorrect(option, q)))
       /\ UNCHANGED currentIndex

\* handleTimeOut of the render that started the interval.
handleTimeOut ==
  handleOptionClick(TimeoutArg, FALSE, timerEnv[1].isAnswered, timerEnv[1].currentQuestion)

\* The interval callback timing out one tick late (prev <= 0).
Tick_LateTimeout ==
  /\ ~crashed
  /\ timerRef
  /\ IF timeLeft <= 0
     THEN /\ CanRun
          /\ handleOptionClick(TimeoutArg, FALSE, timerEnv[1].isAnswered,
                               timerEnv[1].currentQuestion)
          /\ timeLeft' = 0
          /\ Ran
     ELSE /\ timeLeft' = timeLeft - 1
          /\ UNCHANGED <<currentIndex, selectedOption, isAnswered, answers, streak,
                         timerRef, timerEnv, reactVars>>
  /\ UNCHANGED <<appVars, envVars, genVars>>

\* The interval callback: setTimeLeft(prev => ...).
Tick ==
  /\ ~crashed
  /\ timerRef
  /\ IF timeLeft <= 1
     THEN /\ CanRun
          /\ handleTimeOut
          /\ timeLeft' = 0
          /\ Ran
     ELSE /\ timeLeft' = timeLeft - 1
          /\ UNCHANGED <<currentIndex, selectedOption, isAnswered, answers, streak,
                         timerRef, timerEnv, reactVars>>
  /\ UNCHANGED <<appVars, envVars, genVars>>

\* A handler of the last commit can run.
CanHandle == ~crashed /\ booted /\ CanRun

\* A click on an option button of the last commit (disabled when it showed
\* the question as answered).
OptionClick ==
  /\ CanHandle
  /\ view.appState = "QUIZ"
  /\ ~view.isAnswered
  /\ \E k \in DOMAIN view.questions[view.currentIndex + 1].options :
       handleOptionClick(view.questions[view.currentIndex + 1].options[k], TRUE,
                         view.isAnswered, view.questions[view.currentIndex + 1])
  /\ Ran
  /\ UNCHANGED <<timeLeft, appVars, envVars, genVars>>

\* ----------------------------------------------------------------- App
\* handleQuizComplete putting the new record at the tail of the history.
handleQuizComplete_AtTail(ans) ==
  LET newResult == [ id             |-> toString(clock'),
                     score          |-> Score(ans, view.questions),
                     totalQuestions |-> Len(view.questions),
                     questions      |-> view.questions,
                     answers        |-> ans ]
  IN  /\ Len(savedQuizzes) < MaxHistory
      /\ clock' \in clock .. MaxClock
      /\ userAnswers' = ans
      /\ savedQuizzes' = Append(savedQuizzes, newResult)
      /\ appState' = "RESULTS"
      /\ UNCHANGED <<isLoading, questions, timerSeconds, errorToast, reviewQuiz>>

\* Date.now() is read as clock': the clock never runs backwards.
handleQuizComplete(ans) ==
  LET newResult == [ id             |-> toString(clock'),
                     score          |-> Score(ans, view.questions),
                     totalQuestions |-> Len(view.questions),
                     questions      |-> view.questions,
                     answers        |-> ans ]
  IN  /\ Len(savedQuizzes) < MaxHistory
      /\ clock' \in clock .. MaxClock
      /\ userAnswers' = ans
      /\ savedQuizzes' = <<newResult>> \o savedQuizzes
      /\ appState' = "RESULTS"
      /\ UNCHANGED <<isLoading, questions, timerSeconds, errorToast, reviewQuiz>>

handleNext ==
  IF view.currentIndex < Len(view.questions) - 1
  THEN /\ currentIndex' = currentIndex + 1
       /\ selectedOption' = Undefined
       /\ isAnswered' = FALSE
       /\ UNCHANGED <<appVars, clock>>
  ELSE /\ handleQuizComplete(view.answers)
       /\ UNCHANGED <<currentIndex, selectedOption, isAnswered>>

\* A click on the Next / Finish button, shown when the last commit had
\* the question answered.
NextClick ==
  /\ CanHandle
  /\ view.appState = "QUIZ"
  /\ view.isAnswered
  /\ handleNext
  /\ Ran
  /\ UNCHANGED <<answers, timeLeft, streak, timerRef, timerEnv, storage, pending, booted,
                 crashed, genVars>>

\* handleBackToDashboard keeping the abandoned session as a record.
handleBackToDashboard_SavesPartial ==
  /\ appState' = "DASHBOARD"
  /\ questions' = <<>>
  /\ userAnswers' = <<>>
  /\ reviewQuiz' = Undefined
  /\ errorToast' = Undefined
  /\ savedQuizzes' = IF view.appState = "QUIZ"
                      THEN << [ id             |-> toString(clock),
                                score          |-> Score(view.answers, view.questions),
                                totalQuestions |-> Len(view.questions),
                                questions      |-> view.questions,
                                answers        |-> view.answers ] >> \o savedQuizzes
                      ELSE savedQuizzes
  /\ UNCHANGED <<isLoading, timerSeconds>>

handleBackToDashboard ==
  /\ appState' = "DASHBOARD"
  /\ questions' = <<>>
  /\ userAnswers' = <<>>
  /\ reviewQuiz' = Undefined
  /\ errorToast' = Undefined
  /\ UNCHANGED <<isLoading, timerSeconds, savedQuizzes>>

\* The navbar logo (every screen), Exit Quiz, the Setup and Results back buttons.
BackToDashboard ==
  /\ CanHandle
  /\ handleBackToDashboard
  /\ Ran
  /\ UNCHANGED <<gameVars, envVars, genVars>>

\* Dashboard: onNewQuiz.
NewQuiz ==
  /\ CanHandle
  /\ view.appState = "DASHBOARD"
  /\ appState' = "SETUP"
  /\ Ran
  /\ UNCHANGED <<isLoading, questions, userAnswers, timerSeconds, errorToast,
                 savedQuizzes, reviewQuiz, gameVars, envVars, genVars>>

\* handleStartQuiz up to its await, for a configuration whose timer is in timers.
StartQuiz(timers) ==
  /\ CanHandle
  /\ view.appState = "SETUP"
  /\ pending < MaxPendingCalls
  /\ \E t \in timers : timerSeconds' = t
  /\ isLoading' = TRUE
  /\ appState' = "GENERATING"
  /\ errorToast' = Undefined
  /\ pending' = pending + 1
  /\ Ran
  /\ UNCHANGED <<questions, userAnswers, savedQuizzes, reviewQuiz, gameVars,
                 storage, clock, booted, crashed, genVars>>

\* handleStartQuiz after its await: generateQuiz returned, the external call
\* having had one of outcomes.
GenResolve(outcomes) ==
  /\ ~crashed
  /\ pending > 0
  /\ CanRun
  /\ \E o \in outcomes :
       LET r == Settled(o)
       IN  IF r.rejected
           THEN /\ errorToast' = Some(r.message)
                /\ appState' = "SETUP"
                /\ UNCHANGED questions
           ELSE /\ questions' = r.value
                /\ appState' = "QUIZ"
                /\ UNCHANGED errorToast
  /\ isLoading' = FALSE
  /\ pending' = pending - 1
  /\ Ran
  /\ UNCHANGED <<userAnswers, timerSeconds, savedQuizzes, reviewQuiz,
                 gameVars, storage, clock, booted, crashed, genVars>>

handleDeleteQuiz(id) ==
  savedQuizzes' = SelectSeq(savedQuizzes, LAMBDA q : q.id # id)

DeleteQuiz ==
  /\ CanHandle
  /\ view.appState = "DASHBOARD"
  /\ \E k \in DOMAIN view.savedQuizzes : handleDeleteQuiz(view.savedQuizzes[k].id)
  /\ Ran
  /\ UNCHANGED <<appState, isLoading, questions, userAnswers, timerSeconds, errorToast,
                 reviewQuiz, gameVars, envVars, genVars>>

\* handleReviewQuiz showing the record's questions without its answers.
handleReviewQuiz_NoAnswers(quiz) ==
  /\ reviewQuiz' = Some(quiz)
  /\ questions' = quiz.questions
  /\ userAnswers' = <<>>
  /\ appState' = "RESULTS"

handleReviewQuiz(quiz) ==
  /\ reviewQuiz' = Some(quiz)
  /\ questions' = quiz.questions
  /\ userAnswers' = quiz.answers
  /\ appState' = "RESULTS"

ReviewQuiz ==
  /\ CanHandle
  /\ view.appState = "DASHBOARD"
  /\ \E k \in DOMAIN view.savedQuizzes : handleReviewQuiz(view.savedQuizzes[k])
  /\ Ran
  /\ UNCHANGED <<isLoading, timerSeconds, errorToast, savedQuizzes, gameVars, envVars,
                 genVars>>

\* The mount effects of App: load the history, then save the history the
\* first render had.
MountEffects ==
  /\ ~booted
  /\ booted' = TRUE
  /\ savedQuizzes' = IF storage.kind = "json" THEN storage.value ELSE savedQuizzes
  /\ storage' = Stringify(savedQuizzes)
  /\ dirty' = (savedQuizzes' # savedQuizzes)
  /\ UNCHANGED <<appState, isLoading, questions, userAnswers, timerSeconds, errorToast,
                 reviewQuiz, gameVars, pending, clock, crashed, view, late, genVars>>

\* -------------------------------------------------------------- commit
\* The save effect skipping the write when the history did not grow.
saveEffect_OnlyGrowth ==
  storage' = IF Len(savedQuizzes) > Len(view.savedQuizzes)
             THEN Stringify(savedQuizzes) ELSE storage

\* The save effect of App, run by a commit whose savedQuizzes changed.
saveEffect ==
  storage' = IF savedQuizzes # view.savedQuizzes
             THEN Stringify(savedQuizzes) ELSE storage

\* React renders the tree with the current state and runs the effects whose
\* dependencies changed: the timer effect of QuizGame (its cleanup first)
\* and the save effect of App.
Render ==
  /\ ~crashed
  /\ booted
  /\ dirty
  /\ LET wasMounted  == view.appState = "QUIZ"
         shown       == appState = "QUIZ"
         depsChanged == \/ ~wasMounted
                        \/ <<currentIndex, timerSeconds, isAnswered>>
                             # <<view.currentIndex, view.timerSeconds, view.isAnswered>>
         mountedLeft == IF wasMounted THEN timeLeft ELSE timerSeconds
     IN  IF shown /\ RenderThrows(questions, currentIndex)
         THEN /\ crashed' = TRUE
              /\ timerRef' = FALSE
              /\ timerEnv' = Undefined
              /\ UNCHANGED <<currentIndex, selectedOption, isAnswered, answers, timeLeft,
                             streak, storage, view>>
         ELSE /\ UNCHANGED crashed
              /\ IF shown
                 THEN /\ IF depsChanged
                         THEN IF timerSeconds # NoTimer /\ ~isAnswered
                              THEN /\ timeLeft' = timerSeconds
                                   /\ timerRef' = TRUE
                                   /\ timerEnv' = Some([ isAnswered |-> isAnswered,
                                                         currentQuestion |-> questions[currentIndex + 1] ])
                              ELSE /\ timeLeft' = mountedLeft
                                   /\ timerRef' = FALSE
                                   /\ timerEnv' = Undefined
                         ELSE /\ timeLeft' = mountedLeft
                              /\ UNCHANGED <<timerRef, timerEnv>>
                      /\ UNCHANGED <<currentIndex, selectedOption, isAnswered, answers, streak>>
                 ELSE /\ currentIndex' = 0
                      /\ selectedOption' = Undefined
                      /\ isAnswered' = FALSE
                      /\ answers' = <<>>
                      /\ streak' = 0
                      /\ timeLeft' = 0
                      /\ timerRef' = FALSE
                      /\ timerEnv' = Undefined
              /\ saveEffect
              /\ view' = Snapshot(appState, questions, timerSeconds, savedQuizzes,
                                  currentIndex', isAnswered', answers')
  /\ dirty' = FALSE
  /\ UNCHANGED <<appVars, pending, clock, booted, late, genVars>>

\* ------------------------------------------------------ the application
\* The runs of the whole application: the external call answers an empty
\* array or one question in the prompt's format, the timer is off or
\* MaxTimer seconds.
AppOutcomes == { Response(<<"[", "]">>), Response(<<"[", "S", "]">>) }

AppTimers == { NoTimer, MaxTimer }

Next ==
  \/ MountEffects
  \/ Render
  \/ NewQuiz
  \/ StartQuiz(AppTimers)
  \/ GenResolve(AppOutcomes)
  \/ OptionClick
  \/ Tick
  \/ NextClick
  \/ BackToDashboard
  \/ DeleteQuiz
  \/ ReviewQuiz

Spec == Init /\ [][Next]_vars

\* ---------------------------------------------------------- one session
\* One quiz session, from the commit that mounted QuizGame on the questions
\* generateQuiz returned, to its completion or exit.
SessionOutcomes ==
  { ServiceError,
    Response(<<"[", "A", ",", "B1", "]">>),
    Response(<<"[", "B1", ",", "B2", ",", "B3", "]">>),
    Response(<<"[", "B2", ",", "T", "]">>) }

InitSession ==
  /\ appState = "QUIZ"
  /\ isLoading = FALSE
  /\ \E o \in SessionOutcomes : questions = generateQuiz(o)
  /\ userAnswers = <<>>
  /\ timerSeconds \in NoTimer .. MaxTimer
  /\ errorToast = Undefined
  /\ savedQuizzes = <<>>
  /\ reviewQuiz = Undefined
  /\ currentIndex = 0
  /\ selectedOption = Undefined
  /\ isAnswered = FALSE
  /\ answers = <<>>
  /\ streak = 0
  /\ timeLeft = timerSeconds
  /\ timerRef = (timerSeconds # NoTimer)
  /\ timerEnv = IF timerSeconds # NoTimer
                THEN Some([ isAnswered |-> FALSE, currentQuestion |-> questions[1] ])
                ELSE Undefined
  /\ storage = Stringify(<<>>)
  /\ pending = 0
  /\ clock = 0
  /\ booted = TRUE
  /\ crashed = FALSE
  /\ view = Snapshot("QUIZ", questions, timerSeconds, <<>>, 0, FALSE, <<>>)
  /\ dirty = FALSE
  /\ late = 0
  /\ GenIdle

NextSession ==
  \/ Render
  \/ OptionClick
  \/ Tick
  \/ NextClick
  \/ BackToDashboard

SpecSession == InitSession /\ [][NextSession]_vars

\* The commit and the interval are scheduled: neither is postponed for ever.
FairSession == SpecSession /\ WF_vars(Render) /\ WF_vars(Tick)

\* ------------------------------------------------- generateQuiz alone
GenTokens == {"[", "]", ",", "p", "A", "B1"}

GenTexts == UNION { [1 .. n -> GenTokens] : n \in 0 .. MaxLen }

GenOutcomes == { ServiceError } \cup { Response(t) : t \in GenTexts }

InitGen ==
  /\ appState = "DASHBOARD"
  /\ isLoading = FALSE
  /\ questions = <<>>
  /\ userAnswers = <<>>
  /\ timerSeconds = NoTimer
  /\ errorToast = Undefined
  /\ savedQuizzes = <<>>
  /\ reviewQuiz = Undefined
  /\ GameInit
  /\ timeLeft = 0
  /\ storage = AbsentSlot
  /\ pending = 0
  /\ clock = 0
  /\ booted = FALSE
  /\ crashed = FALSE
  /\ view = Snapshot("DASHBOARD", <<>>, NoTimer, <<>>, 0, FALSE, <<>>)
  /\ dirty = FALSE
  /\ late = 0
  /\ genInput \in GenOutcomes
  /\ genOutput = <<>>
  /\ genDone = FALSE

\* One call of generateQuiz.
GenerateQuiz ==
  /\ ~genDone
  /\ genOutput' = generateQuiz(genInput)
  /\ genDone' = TRUE
  /\ UNCHANGED <<genInput, appVars, gameVars, envVars, reactVars>>

NextGen == GenerateQuiz

SpecGen == InitGen /\ [][NextGen]_vars

\* --------------------------------------------------------------- startup
\* The application started on each content the slot can hold: nothing, a
\* text that is no JSON, "[]", a history a previous run saved, and
\* '[{"junk":true}]', a JSON array that holds no record.
SavedS ==
  LET q == generateQuiz(Response(<<"[", "S", "]">>))
  IN  [ id             |-> toString(0),
        score          |-> 0,
        totalQuestions |-> 1,
        questions      |-> q,
        answers        |-> <<NewAnswer(q[1], "s", TRUE, FALSE)>> ]

JunkSlot == [ kind |-> "json", value |-> << [ junk |-> TRUE ] >> ]

StartupStorage == InitialStorage \cup { Stringify(<<SavedS>>), JunkSlot }

InitStartup ==
  /\ appState = "DASHBOARD"
  /\ isLoading = FALSE
  /\ questions = <<>>
  /\ userAnswers = <<>>
  /\ timerSeconds = NoTimer
  /\ errorToast = Undefined
  /\ savedQuizzes = <<>>
  /\ reviewQuiz = Undefined
  /\ GameInit
  /\ timeLeft = 0
  /\ storage \in StartupStorage
  /\ pending = 0
  /\ clock = 0
  /\ booted = FALSE
  /\ crashed = FALSE
  /\ view = Snapshot("DASHBOARD", <<>>, NoTimer, <<>>, 0, FALSE, <<>>)
  /\ dirty = FALSE
  /\ late = 0
  /\ GenIdle

\* The user goes through quizzes without a timer and leaves the history's
\* entries alone.
NextStartup ==
  \/ MountEffects
  \/ Render
  \/ NewQuiz
  \/ StartQuiz({NoTimer})
  \/ GenResolve(AppOutcomes)
  \/ OptionClick
  \/ NextClick
  \/ BackToDashboard

SpecStartup == InitStartup /\ [][NextStartup]_vars

\* ------------------------------------------------------- failing generator
\* The application when the external call fails or answers prose without
\* a bracket; the user sets no timer.
FailureOutcomes == { ServiceError, Response(<<"p">>) }

NextFailure ==
  \/ MountEffects
  \/ Render
  \/ NewQuiz
  \/ StartQuiz({NoTimer})
  \/ GenResolve(FailureOutcomes)
  \/ OptionClick
  \/ NextClick
  \/ BackToDashboard

SpecFailure == Init /\ [][NextFailure]_vars

\* ================================================================ claims

\* ---- C1
\* C1: at most one Answer per question index, timeout against click: once a
\* timeout has recorded the Answer of the current question (isAnswered is set
\* and the selection is the timeout's), a user click, also one handled on the
\* values of the previous commit, appends no Answer; and once any Answer is
\* recorded, a tick appends none.
C1_TimeoutExclusivity ==
  /\ [][ (OptionClick /\ isAnswered /\ selectedOption = Some(TimeoutArg)) =>
           answers' = answers ]_vars
  /\ [][ (Tick /\ isAnswered) => answers' = answers ]_vars

\* ---- C2
\* C2: every completed session hands over as many answers as it had questions,
\* in question order: in the record handleQuizComplete made of the handed-over
\* list, answers[i].questionId = questions[i].id for every i.
C2_CompleteAnswersInQuestionOrder ==
  \A k \in DOMAIN savedQuizzes :
    LET r == savedQuizzes[k]
    IN  /\ Len(r.answers) = Len(r.questions)
        /\ \A i \in DOMAIN r.answers :
             i \in DOMAIN r.questions /\ r.answers[i].questionId = Field(r.questions[i], "id")

\* ---- C3
NumCorrect(ans) == Cardinality({ i \in DOMAIN ans : ans[i].isCorrect })

\* s is 100 * c / n rounded to the nearest integer, halves up.
IsRoundedPercentage(s, c, n) == 2 * s * n <= 200 * c + n /\ 200 * c + n < 2 * (s + 1) * n

\* C3: every saved record's score is round(100 * correctCount / totalQuestions),
\* halves up, with correctCount the number of its answers marked correct and
\* totalQuestions the length of its question list, and lies in 0..100.
C3_ScoreIsRoundedPercentage ==
  \A k \in DOMAIN savedQuizzes :
    LET r == savedQuizzes[k]
    IN  /\ r.totalQuestions = Len(r.questions)
        /\ IsRoundedPercentage(r.score, NumCorrect(r.answers), r.totalQuestions)
        /\ r.score \in 0 .. 100

\* ---- C4
\* C4: advancing never skips or overruns: the current index stays within
\* 0..questionCount-1 and never runs ahead of the number of answered
\* questions, also when handleNext runs twice on one commit.
C4_AdvanceNeverSkips ==
  (appState = "QUIZ" /\ view.appState = "QUIZ") =>
     /\ currentIndex <= Len(questions) - 1
     /\ currentIndex <= Len(answers)

\* ---- C5
\* The outcomes the claim calls failed, malformed or bracket-free.
NoBracketSpan(text) ==
  ~ \E i, j \in DOMAIN text :
      /\ HasOpen(text[i])
      /\ HasClose(text[j])
      /\ (i < j \/ (i = j /\ text[i] \in ObjectTokens))

FailedOutcome(o) ==
  \/ o.threw
  \/ NoBracketSpan(o.text)
  \/ ~JSONparse(o.text, Match(o.text)).ok

\* C5: for every outcome of the external call generateQuiz returns a non-empty
\* sequence, and exactly the one synthetic question when the call failed or
\* the response was malformed or bracket-free.
C5_GenerateQuizNeverEmpty ==
  genDone =>
     /\ genOutput # <<>>
     /\ FailedOutcome(genInput) => genOutput = <<FallbackQuestion>>

\* ---- C6
\* C6: every question generateQuiz returns carries, under correctAnswer, a
\* value equal to exactly one of its options.
C6_CorrectAnswerIsOneOption ==
  genDone =>
     \A k \in DOMAIN genOutput :
       LET q == genOutput[k]
       IN  /\ "options" \in DOMAIN q
           /\ "correctAnswer" \in DOMAIN q
           /\ Cardinality({ j \in DOMAIN q.options : q.options[j] = q.correctAnswer }) = 1

\* ---- C7
\* C7: the Answer a countdown expiry records is incorrect and its
\* selectedOption is none of the question's options, whatever the question.
C7_TimeoutIncorrectAndDistinct ==
  [][ (Tick /\ Len(answers') = Len(answers) + 1) =>
        LET a == answers'[Len(answers')]
            q == timerEnv[1].currentQuestion
        IN  /\ ~a.isCorrect
            /\ \A k \in DOMAIN q.options : a.selectedOption # q.options[k] ]_vars

\* ---- C8
\* A question is shown and waits for its answer, with a timer configured.
AwaitingAnswerTimed ==
  /\ ~crashed
  /\ appState = "QUIZ"
  /\ view.appState = "QUIZ"
  /\ ~view.isAnswered
  /\ ~isAnswered
  /\ timerSeconds # NoTimer

\* C8: the countdown is never below 0 and is at least 1 while the interval is
\* live; a commit that starts the interval sets it to the configured T; every
\* tick takes one off, and the tick that reaches 0 (the T-th) is the one that
\* records the timeout Answer, once, and ends the interval; with the commit
\* and the ticks scheduled fairly a shown, timed question becomes answered
\* (or the session is left).
C8_CountdownExpiresOnTthTick ==
  /\ [](timeLeft >= 0 /\ timeLeft <= MaxTimer /\ (timerRef => timeLeft >= 1))
  /\ [][ (Render /\ timerRef') =>
           \/ timeLeft' = timerSeconds
           \/ (timerRef /\ timerEnv' = timerEnv /\ timeLeft' = timeLeft) ]_vars
  /\ [][ Tick =>
           /\ timeLeft' = timeLeft - 1
           /\ (timeLeft' = 0) <=> (Len(answers') = Len(answers) + 1)
           /\ (timeLeft' = 0) => (~timerRef' /\ isAnswered'
                                   /\ answers'[Len(answers')].selectedOption = TimeoutLabel)
           /\ (timeLeft' # 0) => (timerRef' /\ answers' = answers) ]_vars
  /\ (AwaitingAnswerTimed ~> (isAnswered \/ appState # "QUIZ"))

\* A timer of MaxTimer seconds ran out on the first question.
C8_Witness ==
  /\ timerSeconds = MaxTimer
  /\ view.appState = "QUIZ"
  /\ timeLeft = 0
  /\ isAnswered
  /\ Len(answers) = 1
  /\ answers[1].selectedOption = TimeoutLabel
  /\ selectedOption = Some(TimeoutArg)

\* ---- C9
RECURSIVE TrailingCorrect(_)
TrailingCorrect(ans) ==
  IF ans = <<>> \/ ~ans[Len(ans)].isCorrect THEN 0
  ELSE 1 + TrailingCorrect(SubSeq(ans, 1, Len(ans) - 1))

C10_LateResultDiscarded ==
  [][ /\ (pending' < pending /\ appState # "GENERATING") =>
           (appState' = appState /\ questions' = questions /\ errorToast' = errorToast)
      /\ (appState' = "QUIZ" /\ appState # "QUIZ") => appState = "GENERATING" ]_vars

\* ---- C11
\* C11: the Results screen is in review mode (reviewQuiz set) exactly when it
\* was entered by selecting a past record: a step that completes a live
\* session (it adds a record and shows Results) leaves the flag unset, and a
\* step that opens a past record sets it.
C11_ReviewModeIffRecordSelected ==
  [][ /\ (NextClick /\ appState' = "RESULTS" /\ Len(savedQuizzes') = Len(savedQuizzes) + 1)
           => reviewQuiz' = Undefined
      /\ ReviewQuiz => reviewQuiz' # Undefined ]_vars

\* ---- C12
\* C12: a session that reaches Complete creates exactly one record: the
\* history of one session never holds more than one record; the completing
\* step puts one record at the head, made of the session's question list,
\* its answer list and its question count; and no step of the session
\* changes a record that was already there.
C12_OneRecordPerSession ==
  /\ [](Len(savedQuizzes) <= 1)
  /\ [][ (NextClick /\ appState' = "RESULTS") =>
           /\ Len(savedQuizzes') = Len(savedQuizzes) + 1
           /\ savedQuizzes'[1].questions = questions
           /\ savedQuizzes'[1].answers = answers
           /\ savedQuizzes'[1].totalQuestions = Len(questions) ]_vars
  /\ [][ /\ Len(savedQuizzes') >= Len(savedQuizzes)
         /\ \A k \in DOMAIN savedQuizzes :
              savedQuizzes'[k + Len(savedQuizzes') - Len(savedQuizzes)] = savedQuizzes[k] ]_vars

\* ---- C13
\* The creation time of a record: the clock value its identifier spells.
RECURSIVE CreationTime(_)
CreationTime(id) ==
  IF Len(id) = 1 THEN id[1]
  ELSE 10 * CreationTime(SubSeq(id, 1, Len(id) - 1)) + id[Len(id)]

\* C13: the history is ordered most recent first: a record nearer the head
\* was created no earlier than any record after it, whatever was saved and
\* deleted before.
C13_MostRecentFirst ==
  \A i, j \in DOMAIN savedQuizzes :
    i < j => CreationTime(savedQuizzes[i].id) >= CreationTime(savedQuizzes[j].id)

\* Two records saved at different times, the later one at the head.
C13_Witness ==
  /\ Len(savedQuizzes) = 2
  /\ CreationTime(savedQuizzes[1].id) > CreationTime(savedQuizzes[2].id)

\* ---- C14
\* list without its i-th element.
RemoveAt(list, i) == SubSeq(list, 1, i - 1) \o SubSeq(list, i + 1, Len(list))

\* C14: a deletion by identifier, on any history made by completing
\* sessions, leaves the history as it is when no record has the identifier
\* and otherwise removes exactly one record, the others keeping their order.
C14_DeleteRemovesExactlyOne ==
  [][ DeleteQuiz =>
        \E k \in DOMAIN view.savedQuizzes :
          LET id   == view.savedQuizzes[k].id
              hits == { i \in DOMAIN savedQuizzes : savedQuizzes[i].id = id }
          IN  /\ handleDeleteQuiz(id)
              /\ hits = {} => savedQuizzes' = savedQuizzes
              /\ hits # {} => \E i \in hits : savedQuizzes' = RemoveAt(savedQuizzes, i) ]_vars

\* ---- C15
\* What reading the properties of a stored or in-memory Answer gives.
ReadAnswer(a) ==
  [ k \in DOMAIN a \cup MaybeKeys |-> IF k \in DOMAIN a THEN a[k] ELSE Undefined ]

ReadRecord(r) ==
  [ r EXCEPT !.answers = [ i \in DOMAIN r.answers |-> ReadAnswer(r.answers[i]) ] ]

ReadHistory(list) == [ i \in DOMAIN list |-> ReadRecord(list[i]) ]

\* C15: once a history mutation has been processed (the commit after it has
\* run), the slot holds the serialization of the whole in-memory history,
\* and the collection read back from it equals the in-memory one, record
\* for record and in the same order.
C15_StoredEqualsInMemory ==
  (booted /\ ~dirty /\ ~crashed) =>
     /\ storage = Stringify(savedQuizzes)
     /\ ReadHistory(storage.value) = ReadHistory(savedQuizzes)

\* Two records were saved and the later one deleted; all of it is processed.
C15_Witness ==
  /\ booted /\ ~dirty /\ ~crashed
  /\ clock = 1
  /\ Len(savedQuizzes) = 1
  /\ savedQuizzes[1].id = toString(0)
  /\ Len(storage.value) = 1

\* ---- C16
\* The records a completed session makes.
IsRecord(r) == {"id", "score", "totalQuestions", "questions", "answers"} \subseteq DOMAIN r

\* The slot holds no history: nothing, no JSON, or JSON that is no list of records.
BadSlot(slot) ==
  \/ slot.kind # "json"
  \/ \E i \in DOMAIN slot.value : ~IsRecord(slot.value[i])

\* C16: started on a slot that is absent, corrupt or unparsable, the
\* application has an empty in-memory history, is on the Dashboard and
\* shows no error notification.
C16_BadSlotLoadsEmpty ==
  [][ (MountEffects /\ BadSlot(storage)) =>
        /\ savedQuizzes' = <<>>
        /\ appState' = "DASHBOARD"
        /\ errorToast' = Undefined ]_vars

\* ---- C17
\* C17: when the generator call made from Setup fails, the step that ends
\* the wait takes the shell back to Setup with an error notification, clears
\* the loading flag and does not enter Quiz.
C17_FailureReturnsToSetup ==
  [][ (GenResolve(FailureOutcomes) /\ appState = "GENERATING") =>
        /\ appState' = "SETUP"
        /\ errorToast' # Undefined
        /\ ~isLoading' ]_vars

\* ---- C18
\* C18: an exit abandons the session and persists nothing: the exit step
\* changes neither the history nor the slot, the commit after it writes the
\* slot only if the history had changed, and a shown session leaves the
\* Quiz screen only by the exit or by the advance on the last question.
C18_ExitPersistsNothing ==
  /\ [][ BackToDashboard => (savedQuizzes' = savedQuizzes /\ storage' = storage) ]_vars
  /\ [][ (Render /\ savedQuizzes = view.savedQuizzes) => storage' = storage ]_vars
  /\ [][ (appState = "QUIZ" /\ view.appState = "QUIZ" /\ appState' # "QUIZ") =>
           \/ BackToDashboard
           \/ (NextClick /\ view.currentIndex = Len(view.questions) - 1) ]_vars

\* The session was exited on its second question, one Answer recorded:
\* nothing is saved.
C18_Witness ==
  /\ appState = "DASHBOARD"
  /\ view.appState = "QUIZ"
  /\ view.currentIndex = 1
  /\ Len(answers) = 1
  /\ savedQuizzes = <<>>
  /\ storage = Stringify(<<>>)

\* ---- C19
\* C19: opening a past record shows Results in the same step, with exactly
\* that record's question and answer lists, and leaves the history as it
\* is; going back to the Dashboard adds no record either.
C19_ReviewLoadsRecordUnchanged ==
  /\ [][ ReviewQuiz =>
           /\ appState' = "RESULTS"
           /\ savedQuizzes' = savedQuizzes
           /\ \E k \in DOMAIN view.savedQuizzes :
                /\ reviewQuiz' = Some(view.savedQuizzes[k])
                /\ questions' = view.savedQuizzes[k].questions
                /\ userAnswers' = view.savedQuizzes[k].answers ]_vars
  /\ [][ (BackToDashboard /\ reviewQuiz # Undefined) =>
           (savedQuizzes' = savedQuizzes /\ reviewQuiz' = Undefined) ]_vars

\* The saved record is under review on the Results screen.
C19_Witness ==
  /\ appState = "RESULTS"
  /\ view.appState = "RESULTS"
  /\ Len(savedQuizzes) = 1
  /\ reviewQuiz = Some(savedQuizzes[1])
  /\ questions = savedQuizzes[1].questions
  /\ userAnswers = savedQuizzes[1].answers
  /\ Len(userAnswers) = 1

\* ---- C20
\* C20: the countdown is cancelled on every path that ends the wait for an
\* answer: once the current question is answered (by the user or by the
\* timeout), or the session has been exited, a tick changes neither the
\* answer list nor the streak nor the answered flag nor the time left.
C20_NoTickAfterAnswerOrExit ==
  [][ (Tick /\ (isAnswered \/ appState # "QUIZ")) =>
        UNCHANGED <<answers, streak, isAnswered, timeLeft>> ]_vars

\* ---- C21
\* C21: in every committed state of an in-progress session the current index
\* is within 0..questionCount-1, and the number of recorded Answers is the
\* current index while awaiting an answer and the current index plus one
\* once answered; the session starts at index 0 with an empty Answer list.
C21_IndexAndAnswerCount ==
  /\ (appState = "QUIZ" /\ view.appState = "QUIZ" /\ ~dirty /\ ~crashed) =>
        /\ currentIndex \in 0 .. Len(questions) - 1
        /\ Len(answers) = IF isAnswered THEN currentIndex + 1 ELSE currentIndex
  /\ (appState = "QUIZ" /\ view.appState # "QUIZ" /\ ~crashed) =>
        (currentIndex = 0 /\ answers = <<>>)

\* ---- C22
\* C22: every recorded Answer is marked correct exactly when its recorded
\* selectedOption equals its recorded correctAnswer, for the Answers of user
\* selections and of timeouts alike, whatever the question's texts are.
C22_CorrectIffSelectedIsCorrectAnswer ==
  \A i \in DOMAIN answers :
    answers[i].isCorrect <=> (Some(answers[i].selectedOption) = answers[i].correctAnswer)

\* ---- C23
\* The slot holds a history: JSON, a non-empty list of records.
ValidHistory(slot) ==
  /\ slot.kind = "json"
  /\ slot.value # <<>>
  /\ \A i \in DOMAIN slot.value : IsRecord(slot.value[i])

\* The slot holds every record of list.
HoldsAll(slot, list) ==
  /\ slot.kind = "json"
  /\ \A i \in DOMAIN list : \E j \in DOMAIN slot.value : slot.value[j] = list[i]

\* C23: startup never loses persisted history.  Mounted on a slot that
\* holds a valid non-empty history, the application keeps every stored
\* record in the slot through the load and save effects and takes the stored
\* history as its in-memory one; the commit that follows leaves the slot
\* holding the in-memory history, record for record.
C23_StartupKeepsHistory ==
  /\ [][ (MountEffects /\ ValidHistory(storage)) =>
           /\ HoldsAll(storage', storage.value)
           /\ ReadHistory(savedQuizzes') = ReadHistory(storage.value) ]_vars
  /\ [][ (Render /\ ~crashed') =>
           /\ storage'.kind = "json"
           /\ ReadHistory(storage'.value) = ReadHistory(savedQuizzes) ]_vars
====
